---- MODULE Spec2Model ----
(***************************************************************************)
(* State-machine model of src/discord_bot.py: the slash-command handlers   *)
(* of StockBot running on one cooperative dispatch loop, the worker        *)
(* context that run_in_executor hands blocking engine calls to, the        *)
(* watchlist store, the analysis engine and the notification service.      *)
(*                                                                         *)
(* One action is one run of a handler from a resumption to its next        *)
(* suspension (await).  Every invocation keeps a trace of what it did:     *)
(* the messages it sent to the invoker and the collaborator calls it made. *)
(* Outbound sends of the chat transport are taken to deliver; the          *)
(* collaborators (store, engine, notifier) may return or raise.            *)
(* Display names and comments of watchlist entries only decorate reply     *)
(* texts and are left out; an entry is its code.                           *)
(***************************************************************************)
EXTENDS Integers, Sequences, FiniteSets, TLC

\* Number of command invocations a behaviour may hold.
MaxInv == 2

Ids == 1..MaxInv

(***************************************************************************)
(* Strings are sequences of characters.  str.isdigit() is true of every    *)
(* Unicode digit character, not only of '0'..'9': "FW0".."FW9" stand for   *)
(* the full-width digits U+FF10..U+FF19.                                   *)
(***************************************************************************)
AsciiDigits == {"0", "1", "2", "3", "4", "5", "6", "7", "8", "9"}

NonAsciiDigits == {"FW0", "FW1", "FW5", "FW6", "FW9"}

\* str.isdigit() of one character
IsDigitChar(c) == c \in AsciiDigits \cup NonAsciiDigits

\* str.isdigit(): non-empty and every character is a digit character
IsDigit(s) == Len(s) > 0 /\ \A k \in 1..Len(s) : IsDigitChar(s[k])

\* the specification's wording: every character is one of '0'..'9'
IsAsciiDigits(s) == \A k \in 1..Len(s) : s[k] \in AsciiDigits

\* line 174: code.isdigit() and len(code) == 6
CodeLen == 6

ValidCode(code) == IsDigit(code) /\ Len(code) = CodeLen

\* The code strings the invocations are given.
C600519 == <<"6", "0", "0", "5", "1", "9">>

C12345 == <<"1", "2", "3", "4", "5">>

Cabc123 == <<"a", "b", "c", "1", "2", "3">>

CFullWidth == <<"FW6", "FW0", "FW0", "FW5", "FW1", "FW9">>

NoCode == <<>>

Codes == {C600519, C12345, Cabc123, CFullWidth}

\* watchlist_remove takes any string: one the store may hold and the fallback
\* list names, and one the store may hold and the fallback list does not name
RemoveCodes == {C600519, CFullWidth}

\* analysis takes any string and hands it to the engine unchecked
AnalysisCodes == {C600519}

\* config.stock_list: the static fallback list of the configuration
ConfigLists == {{}, {C600519}}

(***************************************************************************)
(* AnalysisResult as far as the handlers look at it: the code it is about  *)
(* and the dashboard, whose four sections are each missing, null or a      *)
(* mapping.                                                                *)
(***************************************************************************)
Sections == {"core_conclusion", "battle_plan", "data_perspective", "intelligence"}

NoDashboard == [present |-> FALSE, section |-> [s \in Sections |-> "missing"]]

NullSectionDashboard ==
    [present |-> TRUE,
     section |-> [s \in Sections |-> IF s = "core_conclusion" THEN "null" ELSE "map"]]

Dashboards == {NoDashboard, NullSectionDashboard}

AnalysisResults(code) == {[code |-> code, dashboard |-> d] : d \in Dashboards}

\* lines 84-88, 93, 96, 104, 128: db.get(section, {}) gives None for a section
\* stored as null, and the .get on it raises AttributeError
CreateEmbedRaises(r) ==
    /\ r.dashboard.present
    /\ \E s \in Sections : r.dashboard.section[s] = "null"

(***************************************************************************)
(* The AnalysisResult as create_analysis_embed reads it.  A key of a       *)
(* mapping is missing, stored as null, or stored with a value; a           *)
(* sub-section is missing, null, or a mapping of its sub-fields that may   *)
(* hold other keys too.  Texts are tokens: "this_week" for '本周内',       *)
(* "flat_volume" for '平量', "average" for '一般'.                         *)
(***************************************************************************)
Missing == [tag |-> "missing", v |-> ""]

Null == [tag |-> "null", v |-> ""]

Val(v) == [tag |-> "val", v |-> v]

OptValues == {Missing, Null, Val("v")}

\* f"{m.get(key, default)}": the default for a missing key, "None" for a key
\* stored as null
Show(o, default) ==
    CASE o.tag = "val" -> o.v
      [] o.tag = "null" -> "None"
      [] OTHER -> default

SniperFields == {"ideal_buy", "stop_loss", "take_profit"}

StratFields == {"suggested_position", "risk_control"}

PriceFields == {"bias_ma5"}

VolumeFields == {"volume_status"}

ChipFields == {"chip_health"}

NoSub(names) == [tag |-> "missing", f |-> [k \in names |-> Missing], other |-> FALSE]

NullSub(names) == [tag |-> "null", f |-> [k \in names |-> Missing], other |-> FALSE]

MapSubs(names) ==
    {[tag |-> "map", f |-> g, other |-> o] : g \in [names -> OptValues], o \in BOOLEAN}

SubSections(names) == {NoSub(names), NullSub(names)} \cup MapSubs(names)

\* lines 97, 109, 112, 114, 122: "if sub:" of what section.get(name, {}) gave is
\* true of a mapping that holds a key
Truthy(sub) ==
    sub.tag = "map" /\ (sub.other \/ \E k \in DOMAIN sub.f : sub.f[k].tag # "missing")

\* the four sections with nothing in them
NoCore == [tag |-> "missing", time_sensitivity |-> Missing]

NoBattle ==
    [tag |-> "missing", sniper_points |-> NoSub(SniperFields),
     position_strategy |-> NoSub(StratFields)]

NoData ==
    [tag |-> "missing", price_position |-> NoSub(PriceFields),
     volume_analysis |-> NoSub(VolumeFields), chip_structure |-> NoSub(ChipFields)]

NoAlerts == [tag |-> "missing", n |-> 0]

NoIntel == [tag |-> "missing", risk_alerts |-> NoAlerts]

\* result.dashboard is None
AbsentDashboard ==
    [present |-> FALSE, core_conclusion |-> NoCore, battle_plan |-> NoBattle,
     data_perspective |-> NoData, intelligence |-> NoIntel]

\* a result without dashboard and without risk warning
PlainResult ==
    [code |-> C600519, name |-> "name", operation_advice |-> "advice",
     trend_prediction |-> "trend", sentiment_score |-> 50, risk_warning |-> "",
     dashboard |-> AbsentDashboard]

\* the result as the handlers look at it
ShapeOf(R) ==
    [code |-> R.code,
     dashboard |-> [present |-> R.dashboard.present,
                    section |-> [s \in Sections |-> R.dashboard[s].tag]]]

\* lines 65, 67: the thresholds of the colour
HighScore == 70

LowScore == 40

Green == <<46, 204, 113>>

Red == <<231, 76, 60>>

Yellow == <<241, 196, 15>>

\* as SeverityColor, were the upper threshold exclusive
SeverityColorExclusive(score) ==
    IF score > HighScore THEN Green
    ELSE IF score <= LowScore THEN Red
    ELSE Yellow

\* lines 65-70
SeverityColor(score) ==
    IF score >= HighScore THEN Green
    ELSE IF score <= LowScore THEN Red
    ELSE Yellow

\* line 130: risks[:3]
MaxRiskShown == 3

Line(label, text, num) == [label |-> label, text |-> text, num |-> num]

Field(name, inline, lines) == [name |-> name, inline |-> inline, lines |-> lines]

\* create_analysis_embed raised: nothing is rendered
NoEmbed ==
    [raised |-> TRUE, color |-> <<>>, title |-> <<>>, description |-> "",
     timestamp |-> 0, fields |-> <<>>, footer |-> ""]

\* lines 84-88: result.dashboard or {}, and db.get(section, {})
SectionOf(R, s, empty) ==
    IF R.dashboard.present /\ R.dashboard[s].tag = "map" THEN R.dashboard[s] ELSE empty

\* lines 96-101
SniperBlock(battle) ==
    LET sniper == battle.sniper_points
    IN IF Truthy(sniper)
       THEN <<Field("sniper_points", FALSE,
                    <<Line("ideal_buy", Show(sniper.f["ideal_buy"], "N/A"), 0),
                      Line("stop_loss", Show(sniper.f["stop_loss"], "N/A"), 0),
                      Line("take_profit", Show(sniper.f["take_profit"], "N/A"), 0)>>)>>
       ELSE <<>>

\* lines 104-118
TechBlock(data_p) ==
    LET price_p == data_p.price_position
        vol_p == data_p.volume_analysis
        chip_p == data_p.chip_structure
        tech_info ==
            (IF Truthy(price_p)
             THEN <<Line("bias_ma5", Show(price_p.f["bias_ma5"], "0.00"), 0)>> ELSE <<>>)
            \o (IF Truthy(vol_p)
                THEN <<Line("volume_status", Show(vol_p.f["volume_status"], "flat_volume"), 0)>>
                ELSE <<>>)
            \o (IF Truthy(chip_p)
                THEN <<Line("chip_health", Show(chip_p.f["chip_health"], "average"), 0)>>
                ELSE <<>>)
    IN IF tech_info # <<>> THEN <<Field("tech", TRUE, tech_info)>> ELSE <<>>

\* lines 121-125
StrategyBlock(battle) ==
    LET strat == battle.position_strategy
    IN IF Truthy(strat)
       THEN <<Field("position_strategy", TRUE,
                    <<Line("suggested_position", Show(strat.f["suggested_position"], "N/A"), 0),
                      Line("risk_control", Show(strat.f["risk_control"], "N/A"), 0)>>)>>
       ELSE <<>>

\* lines 128-133: the k-th alert of the list is Line("bullet", "alert", k)
RiskBlock(R, intel) ==
    LET risks == intel.risk_alerts
    IN IF risks.tag = "list" /\ risks.n > 0
       THEN <<Field("risk", FALSE,
                    [k \in 1..(IF risks.n < MaxRiskShown THEN risks.n ELSE MaxRiskShown)
                        |-> Line("bullet", "alert", k)])>>
       ELSE IF R.risk_warning # ""
       THEN <<Field("risk", FALSE, <<Line("", R.risk_warning, 0)>>)>>
       ELSE <<>>

\* lines 62-137, called when the clock shows now
create_analysis_embed(R, now) ==
    IF CreateEmbedRaises(ShapeOf(R))
    THEN NoEmbed
    ELSE LET core == SectionOf(R, "core_conclusion", NoCore)
             battle == SectionOf(R, "battle_plan", NoBattle)
             data_p == SectionOf(R, "data_perspective", NoData)
             intel == SectionOf(R, "intelligence", NoIntel)
         IN [raised |-> FALSE,
             color |-> SeverityColor(R.sentiment_score),
             title |-> <<"emoji", R.name, R.code, R.operation_advice>>,
             description |-> "core_conclusion",
             timestamp |-> now,
             fields |->
                 <<Field("score", TRUE, <<Line("", "", R.sentiment_score)>>),
                   Field("trend", TRUE, <<Line("", R.trend_prediction, 0)>>),
                   Field("time_sensitivity", TRUE,
                         <<Line("", Show(core.time_sensitivity, "this_week"), 0)>>)>>
                 \o SniperBlock(battle) \o TechBlock(data_p) \o StrategyBlock(battle)
                 \o RiskBlock(R, intel),
             footer |-> "footer"]

\* The lengths of the market reports the engine returns (0: None or "").
ReportLens == {0, 1900, 2500, 4001}

\* line 238: the chunk size
ChunkSize == 1900

\* line 236: above this length the report is split
SplitThreshold == 4000

\* line 240: above this length the notice is appended to the second chunk
NoticeThreshold == 3800

\* line 239: chunks[:2]
MaxChunks == 2

\* line 240: len("\n\n...(余下内容已通过 Webhook 推送)")
NoticeLen == 25

\* the chat platform's cap on the length of a plain message
PlatformCap == 2000

(***************************************************************************)
(* Trace events: a message sent to the invoker (ev = "send") or a call of  *)
(* a collaborator (ev = "call", via = the context it runs in).             *)
(***************************************************************************)
Blank ==
    [ev |-> "", via |-> "", kind |-> "", ephemeral |-> FALSE, text |-> "",
     code |-> NoCode, codes |-> {}, len |-> 0, off |-> 0, notice |-> FALSE]

Send(via, kind) == [Blank EXCEPT !.ev = "send", !.via = via, !.kind = kind]

Call(via, kind) == [Blank EXCEPT !.ev = "call", !.via = via, !.kind = kind]

\* f"❌ 执行异常: {str(e)}" and f"❌ 查询失败: {str(e)}"
SendError(kind, text) == [Send("followup.send", kind) EXCEPT !.text = text]

NoResult == [kind |-> "none", result |-> [code |-> NoCode, dashboard |-> NoDashboard],
             len |-> 0, text |-> ""]

VARIABLES
    n,              \* number of invocations that have arrived
    cmd,            \* cmd[i]: the command of invocation i, "none" before it arrives
    arg,            \* arg[i]: its code parameter
    pc,             \* pc[i]: where its handler is suspended
    worker,         \* worker[i]: state of its worker-context task
    wres,           \* wres[i]: what the blocking function returned or raised
    trace,          \* trace[i]: its sends and collaborator calls, in order
    escaped,        \* escaped[i]: an exception left its handler
    store,          \* the watchlist store: the set of codes held
    config_stocks,  \* config.stock_list
    loop_busy,      \* the invocation whose blocking call occupies the dispatch loop, or 0
    during,         \* during[i]: the invocations whose worker task ran when i arrived
    removed,        \* the codes a watchlist_remove took out of the store and no
                    \*   watchlist_add has put back since
    failed,         \* failed[i]: the invocations whose blocking function had raised and
                    \*            that were done when i arrived
    clock,          \* what datetime.now() returns
    rin,            \* the AnalysisResult that is rendered
    embeds,         \* the embeds create_analysis_embed has returned for it, in order
    ready,          \* setup_hook has run
    registered,     \* the slash commands registered with the platform
    inbox           \* inbox[j]: the j-th plain-text message and what on_message did for it

render_vars == <<clock, rin, embeds>>

session_vars == <<ready, registered, inbox>>

vars == <<n, cmd, arg, pc, worker, wres, trace, escaped, store, config_stocks,
          loop_busy, during, removed, failed, render_vars, session_vars>>

\* what no step of a command handler changes
inv_vars == <<n, cmd, arg, during, failed, render_vars, session_vars>>

\* no invocation has arrived
Idle ==
    /\ n = 0
    /\ cmd = [i \in Ids |-> "none"]
    /\ arg = [i \in Ids |-> NoCode]
    /\ pc = [i \in Ids |-> "none"]
    /\ worker = [i \in Ids |-> "none"]
    /\ wres = [i \in Ids |-> NoResult]
    /\ trace = [i \in Ids |-> <<>>]
    /\ escaped = [i \in Ids |-> FALSE]
    /\ config_stocks \in ConfigLists
    /\ loop_busy = 0
    /\ during = [i \in Ids |-> {}]
    /\ removed = {}
    /\ failed = [i \in Ids |-> {}]

\* lines 139-223: the commands of bot.tree
Commands == {"ping", "watchlist_list", "watchlist_add", "watchlist_remove", "analysis", "market"}

\* Number of plain-text messages a behaviour may hold.
MaxMsg == 2

MsgIds == 1..MaxMsg

NoMessage == [content |-> "", bot |-> FALSE, pc |-> "none", did |-> <<>>]

\* nothing is being rendered
NoRender == clock = 0 /\ rin = PlainResult /\ embeds = <<>>

\* setup_hook has registered the commands and no message has arrived
Connected ==
    /\ ready = TRUE
    /\ registered = Commands
    /\ inbox = [j \in MsgIds |-> NoMessage]

\* the bot starts on an empty database
Init == Idle /\ store = {} /\ NoRender /\ Connected

\* the bot starts on a database that holds entries of earlier runs
InitPersisted == Idle /\ store \in SUBSET RemoveCodes /\ NoRender /\ Connected

ArgsOf(c) ==
    CASE c = "watchlist_add" -> Codes
      [] c = "watchlist_remove" -> RemoveCodes
      [] c = "analysis" -> AnalysisCodes
      [] OTHER -> {NoCode}

\* The session dispatches an inbound command to its handler.
Invoke(c, a) ==
    /\ n < MaxInv
    /\ loop_busy = 0
    /\ n' = n + 1
    /\ cmd' = [cmd EXCEPT ![n + 1] = c]
    /\ arg' = [arg EXCEPT ![n + 1] = a]
    /\ pc' = [pc EXCEPT ![n + 1] = "start"]
    /\ during' = [during EXCEPT ![n + 1] = {k \in Ids : worker[k] = "running"}]
    /\ failed' = [failed EXCEPT ![n + 1] =
                      {k \in Ids : pc[k] = "done" /\ worker[k] = "raised"}]
    /\ UNCHANGED <<worker, wres, trace, escaped, store, config_stocks, loop_busy, removed,
                   render_vars, session_vars>>

\* A handler runs on the dispatch loop when no blocking call occupies it.
OnLoop(i, c, at) == loop_busy = 0 /\ cmd[i] = c /\ pc[i] = at

Emit(i, evs, to) ==
    /\ trace' = [trace EXCEPT ![i] = trace[i] \o evs]
    /\ pc' = [pc EXCEPT ![i] = to]

\* an exception leaves the handler: nothing more is sent
Escape(i, evs) ==
    /\ Emit(i, evs, "done")
    /\ escaped' = [escaped EXCEPT ![i] = TRUE]

----
\* ping
Ping(i) ==
    /\ OnLoop(i, "ping", "start")
    /\ Emit(i, <<Send("response.send_message", "pong")>>, "done")
    /\ UNCHANGED <<inv_vars, worker, wres, escaped, store, config_stocks, loop_busy, removed>>

----
\* watchlist_list
\* as WatchlistListDefer, were the acknowledgment left out
WatchlistListNoDefer(i) ==
    /\ OnLoop(i, "watchlist_list", "start")
    /\ pc' = [pc EXCEPT ![i] = "query"]
    /\ UNCHANGED <<inv_vars, worker, wres, trace, escaped, store, config_stocks,
                   loop_busy, removed>>

WatchlistListDefer(i) ==
    /\ OnLoop(i, "watchlist_list", "start")
    /\ Emit(i, <<Send("response.defer", "defer")>>, "query")
    /\ UNCHANGED <<inv_vars, worker, wres, escaped, store, config_stocks, loop_busy, removed>>

\* the reply of lines 148-165 to what get_watchlist returned
ListReply(stocks) ==
    IF stocks = {}
    THEN IF config_stocks # {}
         THEN [Send("followup.send", "config_list") EXCEPT !.codes = config_stocks]
         ELSE Send("followup.send", "empty_list")
    ELSE [Send("followup.send", "list_embed") EXCEPT !.codes = stocks]

\* db.get_watchlist(): the entries held, or an exception
GetWatchlist == {[raised |-> FALSE, stocks |-> store], [raised |-> TRUE, stocks |-> {}]}

WatchlistListQuery(i) ==
    /\ OnLoop(i, "watchlist_list", "query")
    /\ \E o \in GetWatchlist :
         Emit(i, <<Call("loop", "get_watchlist"),
                   IF o.raised THEN SendError("query_failed", "store_error")
                               ELSE ListReply(o.stocks)>>, "done")
    /\ UNCHANGED <<inv_vars, worker, wres, escaped, store, config_stocks, loop_busy, removed>>

----
\* watchlist_add

\* db.add_to_watchlist(code, name, comment): the entry is stored and True
\* returned, or nothing is stored and False returned, or an exception raised
AddToWatchlist(code) ==
    {[raised |-> FALSE, success |-> TRUE, store |-> store \cup {code}],
     [raised |-> FALSE, success |-> FALSE, store |-> store],
     [raised |-> TRUE, success |-> FALSE, store |-> store]}

WatchlistAdd(i) ==
    /\ OnLoop(i, "watchlist_add", "start")
    /\ IF ~ValidCode(arg[i])
       THEN /\ Emit(i, <<[Send("response.send_message", "format_error")
                             EXCEPT !.ephemeral = TRUE]>>, "done")
            /\ UNCHANGED <<store, removed, escaped>>
       ELSE \E o \in AddToWatchlist(arg[i]) :
            /\ store' = o.store
            /\ removed' = removed \ o.store
            /\ IF o.raised
               THEN Escape(i, <<Call("loop", "add_to_watchlist")>>)
               ELSE /\ Emit(i, <<Call("loop", "add_to_watchlist"),
                                 IF o.success
                                 THEN [Send("response.send_message", "added")
                                          EXCEPT !.code = arg[i]]
                                 ELSE [Send("response.send_message", "add_failed")
                                          EXCEPT !.ephemeral = TRUE]>>, "done")
                    /\ UNCHANGED escaped
    /\ UNCHANGED <<inv_vars, worker, wres, config_stocks, loop_busy>>

----
\* watchlist_remove

\* db.remove_from_watchlist(code): True if the code was held, and it is held no
\* more; or an exception raised
RemoveFromWatchlist(code) ==
    {[raised |-> FALSE, success |-> code \in store, store |-> store \ {code}],
     [raised |-> TRUE, success |-> FALSE, store |-> store]}

WatchlistRemove(i) ==
    /\ OnLoop(i, "watchlist_remove", "start")
    /\ \E o \in RemoveFromWatchlist(arg[i]) :
        /\ store' = o.store
        /\ removed' = removed \cup (store \ o.store)
        /\ IF o.raised
           THEN Escape(i, <<Call("loop", "remove_from_watchlist")>>)
           ELSE /\ Emit(i, <<Call("loop", "remove_from_watchlist"),
                             IF o.success
                             THEN [Send("response.send_message", "removed")
                                      EXCEPT !.code = arg[i]]
                             ELSE [Send("response.send_message", "remove_failed")
                                      EXCEPT !.code = arg[i], !.ephemeral = TRUE]>>, "done")
                /\ UNCHANGED escaped
    /\ UNCHANGED <<inv_vars, worker, wres, config_stocks, loop_busy>>

----
\* analysis
AnalysisAck(i) ==
    /\ OnLoop(i, "analysis", "start")
    /\ Emit(i, <<[Send("response.send_message", "analysis_started")
                     EXCEPT !.code = arg[i]]>>, "submit")
    /\ UNCHANGED <<inv_vars, worker, wres, escaped, store, config_stocks, loop_busy, removed>>

\* as RunInExecutor, were f called on the dispatch loop itself
RunOnLoop(i, f) ==
    /\ pc' = [pc EXCEPT ![i] = "await"]
    /\ worker' = [worker EXCEPT ![i] = "running"]
    /\ loop_busy' = i
    /\ UNCHANGED <<inv_vars, wres, trace, escaped, store, config_stocks, removed>>

\* loop.run_in_executor(None, f): f becomes a worker-context task and the
\* handler suspends on its future
RunInExecutor(i, f) ==
    /\ Emit(i, <<[Call("loop", "run_in_executor") EXCEPT !.text = f]>>, "await")
    /\ worker' = [worker EXCEPT ![i] = "running"]
    /\ UNCHANGED <<inv_vars, wres, escaped, store, config_stocks, loop_busy, removed>>

AnalysisSubmit(i) ==
    /\ OnLoop(i, "analysis", "submit")
    /\ RunInExecutor(i, "run_analysis_task")

\* what pipeline.process_single_stock(code) may do
EngineOutcomes(code) ==
    {[NoResult EXCEPT !.kind = "result", !.result = r] : r \in AnalysisResults(code)}
        \cup {[NoResult EXCEPT !.kind = "null"],
              [NoResult EXCEPT !.kind = "raise", !.text = "engine_error"]}

\* what run_market_review(...) may do
MarketOutcomes ==
    {[NoResult EXCEPT !.kind = "report", !.len = L] : L \in ReportLens}
        \cup {[NoResult EXCEPT !.kind = "raise", !.text = "market_error"]}

\* The blocking function runs to its end in the context it was started in.
BlockingRun(i, c, what, outcomes) ==
    /\ cmd[i] = c
    /\ worker[i] = "running"
    /\ \E o \in outcomes :
        /\ wres' = [wres EXCEPT ![i] = o]
        /\ worker' = [worker EXCEPT ![i] = IF o.kind = "raise" THEN "raised" ELSE "returned"]
    /\ trace' = [trace EXCEPT ![i] =
                    Append(trace[i], Call(IF loop_busy = i THEN "loop" ELSE "worker", what))]
    /\ loop_busy' = IF loop_busy = i THEN 0 ELSE loop_busy
    /\ UNCHANGED <<inv_vars, pc, escaped, store, config_stocks, removed>>

\* run_analysis_task
RunAnalysisTask(i) ==
    BlockingRun(i, "analysis", "process_single_stock", EngineOutcomes(arg[i]))

\* as AnalysisResume, were a null result not told from a result
AnalysisResumeNullUnchecked(i) ==
    /\ OnLoop(i, "analysis", "await")
    /\ worker[i] \in {"returned", "raised"}
    /\ IF worker[i] = "raised"
       THEN Emit(i, <<SendError("exec_exception", wres[i].text)>>, "done")
       ELSE IF wres[i].kind = "null" \/ CreateEmbedRaises(wres[i].result)
       THEN Emit(i, <<Call("loop", "create_analysis_embed"),
                      SendError("exec_exception", "render_error")>>, "done")
       ELSE Emit(i, <<Call("loop", "create_analysis_embed"),
                      [Send("followup.send", "analysis_embed")
                          EXCEPT !.code = wres[i].result.code]>>, "fanout")
    /\ UNCHANGED <<inv_vars, worker, wres, escaped, store, config_stocks, loop_busy, removed>>

\* lines 205-220: the handler resumes with the task's result or exception
AnalysisResume(i) ==
    /\ OnLoop(i, "analysis", "await")
    /\ worker[i] \in {"returned", "raised"}
    /\ IF worker[i] = "raised"
       THEN Emit(i, <<SendError("exec_exception", wres[i].text)>>, "done")
       ELSE IF wres[i].kind = "result"
       THEN IF CreateEmbedRaises(wres[i].result)
            THEN Emit(i, <<Call("loop", "create_analysis_embed"),
                           SendError("exec_exception", "render_error")>>, "done")
            ELSE Emit(i, <<Call("loop", "create_analysis_embed"),
                           [Send("followup.send", "analysis_embed")
                               EXCEPT !.code = wres[i].result.code]>>, "fanout")
       ELSE Emit(i, <<[Send("followup.send", "analysis_failed")
                          EXCEPT !.code = arg[i]]>>, "done")
    /\ UNCHANGED <<inv_vars, worker, wres, escaped, store, config_stocks, loop_busy, removed>>

\* what the notifier may do: both calls return, generate_dashboard_report
\* raises, or send raises
NotifierOutcomes == {"ok", "report_error", "notify_error"}

\* lines 213-215 and the except clause of 218-220 around them
AnalysisFanout(i) ==
    /\ OnLoop(i, "analysis", "fanout")
    /\ \E o \in NotifierOutcomes :
         Emit(i, <<Call("loop", "generate_dashboard_report")>>
                    \o (IF o = "report_error" THEN <<>> ELSE <<Call("loop", "notifier.send")>>)
                    \o (IF o = "ok" THEN <<>> ELSE <<SendError("exec_exception", o)>>),
              "done")
    /\ UNCHANGED <<inv_vars, worker, wres, escaped, store, config_stocks, loop_busy, removed>>

----
\* market
MarketAck(i) ==
    /\ OnLoop(i, "market", "start")
    /\ Emit(i, <<Send("response.send_message", "market_started")>>, "submit")
    /\ UNCHANGED <<inv_vars, worker, wres, escaped, store, config_stocks, loop_busy, removed>>

MarketSubmit(i) ==
    /\ OnLoop(i, "market", "submit")
    /\ RunInExecutor(i, "run_market_task")

\* run_market_task
RunMarketTask(i) == BlockingRun(i, "market", "run_market_review", MarketOutcomes)

Min(a, b) == IF a < b THEN a ELSE b

\* line 238: the number of slices report[i:i+1900] for i in range(0, len, 1900)
NumChunks(L) == (L + ChunkSize - 1) \div ChunkSize

\* as ChunkMsg, were the notice appended to the first chunk (i == 0)
ChunkMsgNoticeFirst(L, k) ==
    [Send("followup.send", "report") EXCEPT
        !.off = k * ChunkSize,
        !.len = Min(ChunkSize, L - k * ChunkSize)
                  + (IF k = 0 /\ L > NoticeThreshold THEN NoticeLen ELSE 0),
        !.notice = (k = 0 /\ L > NoticeThreshold)]

\* lines 239-241: the k-th message (k from 0) of a report of length L that is split
ChunkMsg(L, k) ==
    [Send("followup.send", "report") EXCEPT
        !.off = k * ChunkSize,
        !.len = Min(ChunkSize, L - k * ChunkSize)
                  + (IF k = 1 /\ L > NoticeThreshold THEN NoticeLen ELSE 0),
        !.notice = (k = 1 /\ L > NoticeThreshold)]

\* line 243: the report sent as it is
WholeMsg(L) == [Send("followup.send", "report") EXCEPT !.len = L]

\* the number of report messages the invocation has sent
ReportsSent(i) == Cardinality({k \in 1..Len(trace[i]) : trace[i][k].kind = "report"})

\* as MarketResume, were there no except clause
MarketResumeNoExcept(i) ==
    /\ OnLoop(i, "market", "await")
    /\ worker[i] \in {"returned", "raised"}
    /\ IF worker[i] = "raised"
       THEN Escape(i, <<>>)
       ELSE /\ UNCHANGED escaped
            /\ IF wres[i].len = 0
               THEN Emit(i, <<Send("followup.send", "market_failed")>>, "done")
               ELSE IF wres[i].len > SplitThreshold
               THEN Emit(i, <<ChunkMsg(wres[i].len, 0)>>, "chunks")
               ELSE Emit(i, <<WholeMsg(wres[i].len)>>, "done")
    /\ UNCHANGED <<inv_vars, worker, wres, store, config_stocks, loop_busy, removed>>

\* lines 232-248: the handler resumes with the task's result or exception
MarketResume(i) ==
    /\ OnLoop(i, "market", "await")
    /\ worker[i] \in {"returned", "raised"}
    /\ IF worker[i] = "raised"
       THEN Emit(i, <<SendError("exec_exception", wres[i].text)>>, "done")
       ELSE IF wres[i].len = 0
       THEN Emit(i, <<Send("followup.send", "market_failed")>>, "done")
       ELSE IF wres[i].len > SplitThreshold
       THEN Emit(i, <<ChunkMsg(wres[i].len, 0)>>,
                 IF Min(MaxChunks, NumChunks(wres[i].len)) > 1 THEN "chunks" ELSE "done")
       ELSE Emit(i, <<WholeMsg(wres[i].len)>>, "done")
    /\ UNCHANGED <<inv_vars, worker, wres, escaped, store, config_stocks, loop_busy, removed>>

\* line 239-241: the next pass of the loop over chunks[:2]
MarketNextChunk(i) ==
    /\ OnLoop(i, "market", "chunks")
    /\ Emit(i, <<ChunkMsg(wres[i].len, ReportsSent(i))>>,
            IF ReportsSent(i) + 1 < Min(MaxChunks, NumChunks(wres[i].len))
            THEN "chunks" ELSE "done")
    /\ UNCHANGED <<inv_vars, worker, wres, escaped, store, config_stocks, loop_busy, removed>>

----
Next ==
    \/ \E c \in Commands : \E a \in ArgsOf(c) : Invoke(c, a)
    \/ \E i \in Ids : Ping(i)
    \/ \E i \in Ids : WatchlistListDefer(i)
    \/ \E i \in Ids : WatchlistListQuery(i)
    \/ \E i \in Ids : WatchlistAdd(i)
    \/ \E i \in Ids : WatchlistRemove(i)
    \/ \E i \in Ids : AnalysisAck(i)
    \/ \E i \in Ids : AnalysisSubmit(i)
    \/ \E i \in Ids : RunAnalysisTask(i)
    \/ \E i \in Ids : AnalysisResume(i)
    \/ \E i \in Ids : AnalysisFanout(i)
    \/ \E i \in Ids : MarketAck(i)
    \/ \E i \in Ids : MarketSubmit(i)
    \/ \E i \in Ids : RunMarketTask(i)
    \/ \E i \in Ids : MarketResume(i)
    \/ \E i \in Ids : MarketNextChunk(i)

Spec == Init /\ [][Next]_vars

\* The watchlist commands alone, on a database of any content.
WatchlistCommands == {"watchlist_list", "watchlist_add", "watchlist_remove"}

NextWatchlist ==
    \/ \E c \in WatchlistCommands : \E a \in ArgsOf(c) : Invoke(c, a)
    \/ \E i \in Ids : WatchlistListDefer(i)
    \/ \E i \in Ids : WatchlistListQuery(i)
    \/ \E i \in Ids : WatchlistAdd(i)
    \/ \E i \in Ids : WatchlistRemove(i)

SpecWatchlist == InitPersisted /\ [][NextWatchlist]_vars

\* One market review, over a report of any length up to MaxReportLen.
MaxReportLen == 6000

AnyMarketOutcomes ==
    {[NoResult EXCEPT !.kind = "report", !.len = L] : L \in 0..MaxReportLen}
        \cup {[NoResult EXCEPT !.kind = "raise", !.text = "market_error"]}

RunMarketTaskAny(i) == BlockingRun(i, "market", "run_market_review", AnyMarketOutcomes)

InvokeMarket == n = 0 /\ Invoke("market", NoCode)

NextMarket ==
    \/ InvokeMarket
    \/ \E i \in Ids : MarketAck(i)
    \/ \E i \in Ids : MarketSubmit(i)
    \/ \E i \in Ids : RunMarketTaskAny(i)
    \/ \E i \in Ids : MarketResume(i)
    \/ \E i \in Ids : MarketNextChunk(i)

SpecMarket == Init /\ [][NextMarket]_vars

(***************************************************************************)
(* The renderer alone: one AnalysisResult is rendered up to MaxRenders     *)
(* times while the clock goes on.                                          *)
(***************************************************************************)
MaxClock == 2

MaxRenders == 2

\* the longest risk_alerts list
MaxAlerts == 5

\* the sentiment score is 0..100
MaxScore == 100

WithDashboard(core, battle, data_p, intel) ==
    [present |-> TRUE, core_conclusion |-> core, battle_plan |-> battle,
     data_perspective |-> data_p, intelligence |-> intel]

AlertLists == {NoAlerts, [tag |-> "null", n |-> 0]} \cup {[tag |-> "list", n |-> k] : k \in 0..MaxAlerts}

RiskWarnings == {"", "warning"}

\* every score, without dashboard
ScoreInputs == {[PlainResult EXCEPT !.sentiment_score = sc] : sc \in 0..MaxScore}

\* every shape of the battle plan
BattleInputs ==
    {[PlainResult EXCEPT !.dashboard =
        WithDashboard(NoCore, [tag |-> "map", sniper_points |-> sn, position_strategy |-> st],
                      NoData, NoIntel)] :
        sn \in SubSections(SniperFields), st \in SubSections(StratFields)}

\* every shape of the data perspective
DataInputs ==
    {[PlainResult EXCEPT !.dashboard =
        WithDashboard(NoCore, NoBattle,
                      [tag |-> "map", price_position |-> pp, volume_analysis |-> va,
                       chip_structure |-> cs], NoIntel)] :
        pp \in SubSections(PriceFields), va \in SubSections(VolumeFields),
        cs \in SubSections(ChipFields)}

\* every shape of the core conclusion and of the risk alerts, with and without
\* the flat risk warning
RiskInputs ==
    {[PlainResult EXCEPT !.risk_warning = rw, !.dashboard =
        WithDashboard([tag |-> "map", time_sensitivity |-> ts], NoBattle, NoData,
                      [tag |-> "map", risk_alerts |-> al])] :
        rw \in RiskWarnings, ts \in OptValues, al \in AlertLists}

\* every section missing, null or a mapping
SectionTags == {"missing", "null", "map"}

SectionInputs ==
    {[PlainResult EXCEPT !.risk_warning = rw, !.dashboard =
        WithDashboard([NoCore EXCEPT !.tag = t[1]], [NoBattle EXCEPT !.tag = t[2]],
                      [NoData EXCEPT !.tag = t[3]],
                      [tag |-> t[4], risk_alerts |-> al])] :
        rw \in RiskWarnings, t \in SectionTags \X SectionTags \X SectionTags \X SectionTags,
        al \in {NoAlerts, [tag |-> "list", n |-> MaxAlerts]}}

RenderInputs == ScoreInputs \cup BattleInputs \cup DataInputs \cup RiskInputs \cup SectionInputs

InitRender ==
    /\ Idle /\ store = {} /\ Connected
    /\ clock = 0
    /\ rin \in RenderInputs
    /\ embeds = <<>>

non_render_vars ==
    <<n, cmd, arg, pc, worker, wres, trace, escaped, store, config_stocks,
      loop_busy, during, removed, failed, session_vars>>

\* time passes
Tick ==
    /\ clock < MaxClock
    /\ clock' = clock + 1
    /\ UNCHANGED <<rin, embeds, non_render_vars>>

\* line 209: embed = create_analysis_embed(result)
Render ==
    /\ Len(embeds) < MaxRenders
    /\ embeds' = Append(embeds, create_analysis_embed(rin, clock))
    /\ UNCHANGED <<clock, rin, non_render_vars>>

NextRender == Tick \/ Render

SpecRender == InitRender /\ [][NextRender]_vars

(***************************************************************************)
(* The session's plain-text messages: setup_hook, then on_message for      *)
(* every message; the awaits of on_message let the messages interleave.    *)
(***************************************************************************)
Contents == {"!sync", "!sync ", "!SYNC", "hello"}

InitSession ==
    /\ Idle /\ store = {} /\ NoRender
    /\ ready = FALSE
    /\ registered = {}
    /\ inbox = [j \in MsgIds |-> NoMessage]

non_session_vars ==
    <<n, cmd, arg, pc, worker, wres, trace, escaped, store, config_stocks,
      loop_busy, during, removed, failed, render_vars>>

\* self.tree.sync(): the platform holds the commands of the tree
TreeSync == Commands

\* lines 40-43
SetupHook ==
    /\ ~ready
    /\ ready' = TRUE
    /\ registered' = TreeSync
    /\ UNCHANGED <<inbox, non_session_vars>>

\* a message arrives on the connection
Receive(j, content, bot) ==
    /\ ready
    /\ inbox[j].pc = "none"
    /\ \A k \in 1..(j - 1) : inbox[k].pc # "none"
    /\ inbox' = [inbox EXCEPT ![j] = [content |-> content, bot |-> bot, pc |-> "start",
                                      did |-> <<>>]]
    /\ UNCHANGED <<ready, registered, non_session_vars>>

\* as OnMessage, were the author not looked at
OnMessageAnyAuthor(j) ==
    /\ inbox[j].pc = "start"
    /\ IF inbox[j].content = "!sync"
       THEN /\ registered' = TreeSync
            /\ inbox' = [inbox EXCEPT ![j].pc = "synced", ![j].did = <<"sync">>]
       ELSE /\ inbox' = [inbox EXCEPT ![j].pc = "done"]
            /\ UNCHANGED registered
    /\ UNCHANGED <<ready, non_session_vars>>

\* lines 49-56: up to the end of await self.tree.sync()
OnMessage(j) ==
    /\ inbox[j].pc = "start"
    /\ IF ~inbox[j].bot /\ inbox[j].content = "!sync"
       THEN /\ registered' = TreeSync
            /\ inbox' = [inbox EXCEPT ![j].pc = "synced", ![j].did = <<"sync">>]
       ELSE /\ inbox' = [inbox EXCEPT ![j].pc = "done"]
            /\ UNCHANGED registered
    /\ UNCHANGED <<ready, non_session_vars>>

\* lines 57-58: the confirmation
OnMessageConfirm(j) ==
    /\ inbox[j].pc = "synced"
    /\ inbox' = [inbox EXCEPT ![j].pc = "done", ![j].did = Append(inbox[j].did, "reply")]
    /\ UNCHANGED <<ready, registered, non_session_vars>>

NextSession ==
    \/ SetupHook
    \/ \E j \in MsgIds : \E c \in Contents : \E b \in BOOLEAN : Receive(j, c, b)
    \/ \E j \in MsgIds : OnMessage(j)
    \/ \E j \in MsgIds : OnMessageConfirm(j)

SpecSession == InitSession /\ [][NextSession]_vars

(***************************************************************************)
(* What an invocation's trace shows.                                       *)
(***************************************************************************)
IsSend(e) == e.ev = "send"

Sends(i) == SelectSeq(trace[i], IsSend)

\* the kinds of the messages the invoker of i has received, in order
Kinds(i) == [k \in 1..Len(Sends(i)) |-> Sends(i)[k].kind]

LastSend(i) == Sends(i)[Len(Sends(i))]

Called(i, what) == \E k \in 1..Len(trace[i]) : trace[i][k].ev = "call" /\ trace[i][k].kind = what

TimesCalled(i, what) ==
    Cardinality({k \in 1..Len(trace[i]) : trace[i][k].ev = "call" /\ trace[i][k].kind = what})

\* the initial acknowledgment goes through interaction.response
IsAck(e) == e.ev = "send" /\ e.via \in {"response.send_message", "response.defer"}

AckKinds == {"defer", "analysis_started", "market_started"}

Bridged == {"analysis", "market"}

\* the handler of j has a step to take on the dispatch loop
Pending(j) ==
    \/ pc[j] \in {"start", "submit", "query", "fanout", "chunks"}
    \/ pc[j] = "await" /\ worker[j] \in {"returned", "raised"}

\* the step of the handler of j on the dispatch loop
LoopStep(j) ==
    \/ Ping(j)
    \/ WatchlistListDefer(j)
    \/ WatchlistListQuery(j)
    \/ WatchlistAdd(j)
    \/ WatchlistRemove(j)
    \/ AnalysisAck(j)
    \/ AnalysisSubmit(j)
    \/ AnalysisResume(j)
    \/ AnalysisFanout(j)
    \/ MarketAck(j)
    \/ MarketSubmit(j)
    \/ MarketResume(j)
    \/ MarketNextChunk(j)

Arrival == \E c \in Commands : \E a \in ArgsOf(c) : Invoke(c, a)

\* the dispatch loop serves whatever is there to serve
LoopServes(i) ==
    /\ loop_busy = 0
    /\ n < MaxInv => ENABLED Arrival
    /\ \A j \in Ids \ {i} : Pending(j) => ENABLED LoopStep(j)

----
(***************************************************************************)
(* C1.  Every handler catches every exception a collaborator raises, ends  *)
(* the invocation with a reply the invoker sees, and lets no exception     *)
(* out to the session.                                                     *)
(* Fails: watchlist_add and watchlist_remove call the store outside any    *)
(* try block.                                                              *)
(***************************************************************************)
C1_HandlersCatchEverything ==
    \A i \in Ids :
        /\ ~escaped[i]
        /\ pc[i] = "done" => /\ Len(Sends(i)) > 0
                             /\ LastSend(i).kind \notin AckKinds

(***************************************************************************)
(* C2.  In an analysis invocation a failure of the fan-out (the notifier's *)
(* generate_dashboard_report or send raising after the embed was sent) is  *)
(* only logged: the invoker sees the same messages as when the fan-out     *)
(* succeeds, the acknowledgment and the embed.                             *)
(* Fails: the fan-out runs inside the handler's try block, so its          *)
(* exception is reported to the invoker as an execution exception.         *)
(***************************************************************************)
C2_FanoutFailureOnlyLogged ==
    \A i \in Ids :
        (cmd[i] = "analysis" /\ pc[i] = "done" /\ Called(i, "generate_dashboard_report"))
            => Kinds(i) = <<"analysis_started", "analysis_embed">>

(***************************************************************************)
(* C3.  While an analysis or market invocation is suspended on its worker  *)
(* task, the dispatch loop is not occupied: a new invocation can be        *)
(* dispatched, every other handler that has a step to take can take it,    *)
(* and every other worker task can run to its end.                         *)
(***************************************************************************)
C3_LoopFreeWhileAwaiting ==
    \A i \in Ids :
        (cmd[i] \in Bridged /\ pc[i] = "await" /\ worker[i] = "running")
            => /\ LoopServes(i)
               /\ \A j \in Ids \ {i} :
                    worker[j] = "running" => ENABLED (RunAnalysisTask(j) \/ RunMarketTask(j))

\* a second analysis of the same code arrived while the first one's engine call
\* ran, and was acknowledged and answered before that call returned
C3_Witness ==
    \E i, j \in Ids :
        /\ i # j
        /\ cmd[i] = "analysis" /\ pc[i] = "await" /\ worker[i] = "running"
        /\ cmd[j] = "analysis" /\ arg[j] = arg[i] /\ i \in during[j]
        /\ pc[j] = "done" /\ Kinds(j) = <<"analysis_started", "analysis_embed">>

\* the same for a watchlist command served during a market review
C3_WitnessWatchlist ==
    \E i, j \in Ids :
        /\ cmd[i] = "market" /\ pc[i] = "await" /\ worker[i] = "running"
        /\ cmd[j] = "watchlist_list" /\ i \in during[j]
        /\ pc[j] = "done" /\ Len(Sends(j)) = 2

(***************************************************************************)
(* C4.  In every invocation of analysis, market and watchlist_list the     *)
(* first thing the handler does is send the acknowledgment (send_message   *)
(* or defer): it comes before every follow-up message and before every     *)
(* call of the engine or the store, and it is sent once.                   *)
(***************************************************************************)
C4_AckFirst ==
    \A i \in Ids :
        (cmd[i] \in {"analysis", "market", "watchlist_list"} /\ Len(trace[i]) > 0)
            => /\ IsAck(trace[i][1])
               /\ \A k \in 2..Len(trace[i]) : ~IsAck(trace[i][k])

\* a watchlist_list that arrived during an analysis has queried the store and
\* replied, and the analysis has sent its follow-up too
C4_Witness ==
    \E i, j \in Ids :
        /\ cmd[i] = "watchlist_list" /\ j \in during[i] /\ pc[i] = "done"
        /\ Called(i, "get_watchlist") /\ Len(Sends(i)) = 2
        /\ cmd[j] = "analysis" /\ pc[j] = "done"
        /\ Called(j, "process_single_stock") /\ Len(Sends(j)) >= 2

(***************************************************************************)
(* C5.  Every analysis invocation whose engine call returned a result has  *)
(* called notifier.send exactly once when it ends, and no invocation calls *)
(* it more than once.                                                      *)
(* Fails: the embed is rendered and the report generated before send in    *)
(* the same try block; when either raises, send is never called.           *)
(***************************************************************************)
C5_FanoutExactlyOnce ==
    \A i \in Ids :
        /\ TimesCalled(i, "notifier.send") <= 1
        /\ (cmd[i] = "analysis" /\ pc[i] = "done" /\ wres[i].kind = "result")
              => TimesCalled(i, "notifier.send") = 1

(***************************************************************************)
(* C6.  When process_single_stock returns null, the invoker receives the   *)
(* acknowledgment and then exactly the soft-failure message; never the     *)
(* execution-exception message, no embed, and neither the report is        *)
(* generated nor the notifier's send called.                               *)
(***************************************************************************)
C6_NullIsSoftFailure ==
    \A i \in Ids :
        (cmd[i] = "analysis" /\ wres[i].kind = "null")
            => /\ ~Called(i, "create_analysis_embed")
               /\ ~Called(i, "generate_dashboard_report")
               /\ ~Called(i, "notifier.send")
               /\ \A k \in 1..Len(Sends(i)) :
                    Sends(i)[k].kind \in {"analysis_started", "analysis_failed"}
               /\ pc[i] = "done" =>
                    /\ Kinds(i) = <<"analysis_started", "analysis_failed">>
                    /\ LastSend(i).code = arg[i]
                    /\ ~escaped[i]

C6_Witness ==
    \E i \in Ids : cmd[i] = "analysis" /\ wres[i].kind = "null" /\ pc[i] = "done"

(***************************************************************************)
(* C7.  When the blocking function of analysis or market raises on the     *)
(* worker context, the invoker receives the acknowledgment and then the    *)
(* execution-exception message with the error's text (not the soft-failure *)
(* message), nothing is fanned out, no exception leaves the handler, and   *)
(* the dispatch loop goes on serving.                                      *)
(***************************************************************************)
C7_WorkerExceptionReported ==
    \A i \in Ids :
        (cmd[i] \in Bridged /\ worker[i] = "raised")
            => /\ ~escaped[i]
               /\ ~Called(i, "generate_dashboard_report")
               /\ ~Called(i, "notifier.send")
               /\ LoopServes(i)
               /\ pc[i] = "await" => Len(Sends(i)) = 1
               /\ pc[i] = "done" =>
                    /\ Len(Sends(i)) = 2
                    /\ LastSend(i).kind = "exec_exception"
                    /\ LastSend(i).text = wres[i].text
               /\ pc[i] \in {"await", "done"}

\* an invocation that arrived after a market review had failed was served
C7_Witness ==
    \E i, j \in Ids :
        /\ cmd[i] = "market" /\ worker[i] = "raised" /\ i \in failed[j]
        /\ pc[j] = "done" /\ Len(Sends(j)) > 0

\* the same after a failed analysis
C7_WitnessAnalysis ==
    \E i, j \in Ids :
        /\ cmd[i] = "analysis" /\ worker[i] = "raised" /\ i \in failed[j]
        /\ pc[j] = "done" /\ Len(Sends(j)) > 0

(***************************************************************************)
(* C8.  watchlist_add calls add_to_watchlist if and only if the code is    *)
(* exactly 6 ASCII digits; for every other code it replies privately with  *)
(* the format error and the store is not called.                           *)
(* Fails: str.isdigit() accepts digit characters outside ASCII.            *)
(***************************************************************************)
C8_StoreCalledIffSixAsciiDigits ==
    \A i \in Ids :
        (cmd[i] = "watchlist_add" /\ pc[i] = "done")
            => IF Len(arg[i]) = CodeLen /\ IsAsciiDigits(arg[i])
               THEN Called(i, "add_to_watchlist")
               ELSE /\ ~Called(i, "add_to_watchlist")
                    /\ Kinds(i) = <<"format_error">>
                    /\ LastSend(i).ephemeral

(***************************************************************************)
(* C9.  Whenever the store answers a watchlist_remove, the reply is the    *)
(* success reply if the code was in the store and the failure reply if it  *)
(* was not; and a watchlist_list reply never contains a code that was      *)
(* removed and not added again since, whatever the fallback list holds.    *)
(* Fails: with the store left empty, watchlist_list replies with the       *)
(* configuration's fallback list, which may name the removed code.         *)
(***************************************************************************)
C9_RemoveThenListOmits ==
    [][\A i \in Ids :
         /\ (cmd[i] = "watchlist_remove" /\ pc[i] = "start" /\ pc'[i] = "done"
                /\ ~escaped'[i])
              => Kinds(i)' = <<IF arg[i] \in store THEN "removed" ELSE "remove_failed">>
         /\ (cmd[i] = "watchlist_list" /\ pc[i] = "query" /\ pc'[i] = "done")
              => LastSend(i)'.codes \cap removed = {}]_vars

(***************************************************************************)
(* C10.  Every message the market handler sends with report text, a chunk  *)
(* with the notice appended and a report sent unsplit included, is within  *)
(* the platform's cap on a plain message.                                  *)
(* Fails: a report of 2001 to 4000 characters is sent unsplit.             *)
(***************************************************************************)
C10_MessagesWithinCap ==
    \A i \in Ids :
        cmd[i] = "market" =>
            \A k \in 1..Len(trace[i]) :
                trace[i][k].kind = "report" => trace[i][k].len <= PlatformCap

(***************************************************************************)
(* C11.  A market report longer than the per-message cap of 1900 and not   *)
(* longer than the secondary threshold is sent as positional chunks of     *)
(* 1900 characters: one message per chunk, the k-th starting at offset     *)
(* 1900 * (k - 1); a report of 2500 gives two messages of 1900 and 600.    *)
(* Fails: the handler splits only reports longer than 4000 characters.     *)
(***************************************************************************)
IsReport(e) == e.kind = "report"

\* the report messages the invocation has sent, in order
Reports(i) == SelectSeq(trace[i], IsReport)

C11_ChunksOfCap ==
    \A i \in Ids :
        (cmd[i] = "market" /\ pc[i] = "done" /\ wres[i].kind = "report"
            /\ wres[i].len > ChunkSize /\ wres[i].len <= NoticeThreshold)
          => /\ Len(Reports(i)) = NumChunks(wres[i].len)
             /\ \A k \in 1..Len(Reports(i)) :
                  /\ Reports(i)[k].off = ChunkSize * (k - 1)
                  /\ Reports(i)[k].len = Min(ChunkSize, wres[i].len - ChunkSize * (k - 1))

(***************************************************************************)
(* C12.  process_single_stock and the market-review function run only in   *)
(* a worker-context task, never on the dispatch loop; an invocation        *)
(* creates at most one worker task, runs the engine at most once, and only *)
(* after it created the task; only analysis and market create one.         *)
(***************************************************************************)
EngineCalls == {"process_single_stock", "run_market_review"}

C12_EngineOnlyInWorker ==
    \A i \in Ids :
        /\ \A k \in 1..Len(trace[i]) :
             (trace[i][k].ev = "call" /\ trace[i][k].kind \in EngineCalls)
                => /\ trace[i][k].via = "worker"
                   /\ \E m \in 1..(k - 1) : trace[i][m].kind = "run_in_executor"
        /\ TimesCalled(i, "run_in_executor") <= 1
        /\ TimesCalled(i, "process_single_stock") + TimesCalled(i, "run_market_review") <= 1
        /\ worker[i] # "none" => /\ cmd[i] \in Bridged
                                 /\ TimesCalled(i, "run_in_executor") = 1

\* an analysis and a market review have both run their engine call and ended
C12_Witness ==
    \E i, j \in Ids :
        /\ cmd[i] = "analysis" /\ pc[i] = "done" /\ Called(i, "process_single_stock")
        /\ cmd[j] = "market" /\ pc[j] = "done" /\ Called(j, "run_market_review")

(***************************************************************************)
(* C19.  For a report of any length the market handler sends at most two   *)
(* report messages, in increasing offset order, each starting where the    *)
(* text of the one before ended, so that together they are a prefix of the *)
(* report; the notice is appended to no message but the last one sent, and *)
(* when the handler is done the notice is there if and only if some of the *)
(* report was not sent.                                                    *)
(***************************************************************************)
\* the report text a message holds: its length without the notice
TextLen(e) == e.len - (IF e.notice THEN NoticeLen ELSE 0)

C19_PrefixAndNotice ==
    \A i \in Ids :
        (cmd[i] = "market" /\ Len(Reports(i)) > 0)
          => LET r == Reports(i)
                 L == wres[i].len
                 last == r[Len(r)]
             IN /\ Len(r) <= MaxChunks
                /\ r[1].off = 0
                /\ \A k \in 1..Len(r) : TextLen(r[k]) > 0
                /\ \A k \in 2..Len(r) : r[k].off = r[k - 1].off + TextLen(r[k - 1])
                /\ last.off + TextLen(last) <= L
                /\ \A k \in 1..(Len(r) - 1) : ~r[k].notice
                /\ pc[i] = "done" => (last.notice <=> last.off + TextLen(last) < L)

\* a report too long for two chunks: two messages were sent, the second with
\* the notice
C19_Witness ==
    \E i \in Ids :
        /\ cmd[i] = "market" /\ pc[i] = "done" /\ wres[i].len > 2 * ChunkSize
        /\ Len(Reports(i)) = 2 /\ Reports(i)[2].notice

\* a report sent whole, without the notice
C19_WitnessWhole ==
    \E i \in Ids :
        /\ cmd[i] = "market" /\ pc[i] = "done" /\ wres[i].len = SplitThreshold
        /\ Len(Reports(i)) = 1 /\ ~Reports(i)[1].notice

(***************************************************************************)
(* The renderer                                                            *)
(***************************************************************************)
Rendered == {embeds[a] : a \in 1..Len(embeds)}

\* C13: rendering the same AnalysisResult twice, at any two points of an
\* execution and with any two clock values, yields the same output in every
\* component (title, body, colour, fields, footer, timestamp).
C13_RenderDeterministic ==
    \A a, b \in 1..Len(embeds) : embeds[a] = embeds[b]

IsRiskField(f) == f.name = "risk"

\* the entries of the dashboard's risk_alerts list
AlertCount(R) ==
    LET intel == R.dashboard.intelligence
    IN IF R.dashboard.present /\ intel.tag = "map" /\ intel.risk_alerts.tag = "list"
       THEN intel.risk_alerts.n
       ELSE 0

\* C14: for every dashboard shape the rendered risk field is the first
\* min(3, n) entries of risk_alerts, in order and bulleted, when the list has
\* n >= 1 entries; otherwise the flat risk warning when there is one;
\* otherwise there is no risk field.
C14_RiskField ==
    \A e \in Rendered :
        LET shown == SelectSeq(e.fields, IsRiskField)
            cnt == AlertCount(rin)
        IN IF cnt >= 1
           THEN /\ Len(shown) = 1
                /\ Len(shown[1].lines) = Min(3, cnt)
                /\ \A k \in 1..Min(3, cnt) : shown[1].lines[k] = Line("bullet", "alert", k)
           ELSE IF rin.risk_warning # ""
           THEN shown = <<Field("risk", FALSE, <<Line("", rin.risk_warning, 0)>>)>>
           ELSE shown = <<>>

\* C15: for every score s of 0..MaxScore the colour is green iff s >= 70, red
\* iff s <= 40 and yellow iff 41 <= s <= 69, and exactly one of the three.
C15_SeverityColour ==
    \A e \in Rendered :
        ~e.raised =>
            LET sc == rin.sentiment_score
            IN /\ e.color = Green <=> sc >= 70
               /\ e.color = Red <=> sc <= 40
               /\ e.color = Yellow <=> (41 <= sc /\ sc <= 69)
               /\ Cardinality({c \in {Green, Red, Yellow} : e.color = c}) = 1

\* a score on the upper threshold has been rendered, and one on the lower
C15_Witness ==
    /\ Len(embeds) = MaxRenders
    /\ rin.sentiment_score = 70
    /\ \A e \in Rendered : ~e.raised /\ e.color = Green

C15_WitnessLow ==
    /\ Len(embeds) > 0
    /\ rin.sentiment_score = 40
    /\ \A e \in Rendered : ~e.raised /\ e.color = Red

\* the sub-field of the result a line of the message shows
SubFieldOf(R, label) ==
    LET battle == SectionOf(R, "battle_plan", NoBattle)
        data_p == SectionOf(R, "data_perspective", NoData)
    IN CASE label \in SniperFields -> battle.sniper_points.f[label]
         [] label \in StratFields -> battle.position_strategy.f[label]
         [] label \in PriceFields -> data_p.price_position.f[label]
         [] label \in VolumeFields -> data_p.volume_analysis.f[label]
         [] label \in ChipFields -> data_p.chip_structure.f[label]

SubFieldLabels == SniperFields \cup StratFields \cup PriceFields \cup VolumeFields \cup ChipFields

\* the stated default of a sub-field
DefaultOf(label) ==
    CASE label = "bias_ma5" -> "0.00"
      [] label = "volume_status" -> "flat_volume"
      [] label = "chip_health" -> "average"
      [] OTHER -> "N/A"

\* C16: whatever of the dashboard, its sections, sub-sections and sub-fields is
\* absent (missing key or null value), rendering completes with a message, and
\* every absent sub-field is shown as its default.
C16_ToleratesPartialData ==
    \A e \in Rendered :
        /\ ~e.raised
        /\ \A k \in 1..Len(e.fields) : \A l \in 1..Len(e.fields[k].lines) :
              LET ln == e.fields[k].lines[l]
              IN /\ (ln.label \in SubFieldLabels /\ SubFieldOf(rin, ln.label).tag # "val")
                        => ln.text = DefaultOf(ln.label)
                 /\ (e.fields[k].name = "time_sensitivity"
                     /\ SectionOf(rin, "core_conclusion", NoCore).time_sensitivity.tag # "val")
                        => ln.text = "this_week"

HasBlock(e, name) == \E k \in 1..Len(e.fields) : e.fields[k].name = name

\* the sub-section is there, the sub-field holds a value
SubPresent(sub) == sub.tag = "map"

FieldPresent(sub, k) == sub.tag = "map" /\ sub.f[k].tag = "val"

\* C18: the sniper-points block appears iff the sniper_points sub-section is
\* present, the position/strategy block iff position_strategy is present, the
\* technical/chip block iff at least one of MA bias, volume status and chip
\* health is present; a sub-section without sub-fields, or with only other
\* sub-fields, follows the same rule.
C18_BlocksFollowPresence ==
    \A e \in Rendered :
        LET battle == SectionOf(rin, "battle_plan", NoBattle)
            data_p == SectionOf(rin, "data_perspective", NoData)
        IN /\ HasBlock(e, "sniper_points") <=> SubPresent(battle.sniper_points)
           /\ HasBlock(e, "position_strategy") <=> SubPresent(battle.position_strategy)
           /\ HasBlock(e, "tech") <=>
                 \/ FieldPresent(data_p.price_position, "bias_ma5")
                 \/ FieldPresent(data_p.volume_analysis, "volume_status")
                 \/ FieldPresent(data_p.chip_structure, "chip_health")

(***************************************************************************)
(* The plain-text trigger                                                  *)
(***************************************************************************)
IsSyncRequest(m) == ~m.bot /\ m.content = "!sync"

\* C17: a message of a non-bot author whose content is exactly "!sync" gets
\* one re-registration and, only after it, one confirmation; any other message
\* gets neither; whatever the number of "!sync" messages, the registered
\* commands are the same six.
C17_SyncTrigger ==
    /\ \A j \in MsgIds :
          LET m == inbox[j]
          IN /\ m.pc \in {"none", "start"} => m.did = <<>>
             /\ m.pc = "synced" => IsSyncRequest(m) /\ m.did = <<"sync">>
             /\ m.pc = "done" =>
                   m.did = IF IsSyncRequest(m) THEN <<"sync", "reply">> ELSE <<>>
    /\ ready => registered = Commands /\ Cardinality(registered) = 6

\* "!sync" was handled twice, and a bot's "!sync" was ignored
C17_Witness ==
    \A j \in MsgIds :
        /\ inbox[j].pc = "done" /\ IsSyncRequest(inbox[j])
        /\ inbox[j].did = <<"sync", "reply">>

C17_WitnessBot ==
    \E j \in MsgIds :
        /\ inbox[j].pc = "done" /\ inbox[j].bot /\ inbox[j].content = "!sync"
        /\ inbox[j].did = <<>>

====
